---- MODULE Spec2Model ----
(***************************************************************************)
(* State-machine model of vkbottle's long-poll loop (UserPolling), the     *)
(* handler registration surface (BotLabeler), the message rules and the    *)
(* state rule (StateRule) evaluated against the per-peer state store.      *)
(*                                                                         *)
(* The specifications share the variables:                                 *)
(*   Spec         UserPolling.listen and its transport / consumer          *)
(*   SpecClose    the same with a consumer that closes or is cancelled     *)
(*   SpecLabeler  BotLabeler construction and handler registration         *)
(*   SpecLoad     BotLabeler.load between two filled labelers              *)
(*   SpecDirection  chat_message / private_message registration            *)
(*   SpecConfig   BotLabeler's rule_config properties                      *)
(*   SpecState    state store operations and StateRule.check               *)
(*   SpecRules    one evaluation sequence of a message rule on a message   *)
(*   SpecPurity   a rule instance evaluated on successive messages         *)
(***************************************************************************)
EXTENDS Integers, Sequences, FiniteSets, TLC

VARIABLES
    \* ---- UserPolling ----
    pc,        \* position of the listen() coroutine
    server,    \* local variable `server` of listen(): the session descriptor
    stop,      \* self.stop
    user_id,   \* self.user_id (0 models None)
    calls,     \* transport requests issued so far, with their responses
    handled,   \* invocations of error_handler.handle, in order
    yielded,   \* events yielded to the consumer, in order
    \* ---- BotLabeler ----
    CUSTOM_RULES,  \* the module-level table: shorthand name -> rule class
    labelers,      \* the BotLabeler objects constructed so far
    nreg,          \* decorator applications so far (names the function)
    nload,         \* load() calls so far
    last,          \* the last labeler operation and how it ended
    \* ---- state store / StateRule ----
    storage,       \* the state dispenser's dictionary: peer -> state
    checked,       \* the last StateRule.check evaluation
    \* ---- consumer of listen() ----
    closed,        \* the consumer has closed or cancelled the iterator
    \* ---- message rules ----
    rule,          \* the rule instance under evaluation
    event,         \* the message being dispatched against it
    evaluated,     \* outcomes of rule.check so far, in order
    awaited,       \* the instance's coroutine object has been awaited
    \* ---- BotLabeler.rule_config ----
    rule_config,   \* self.rule_config of one labeler: key -> value
    assigned,      \* the last assignment to vbml_ignore_case, if it is
                   \* the last change of the flags
    got            \* how the last read of vbml_ignore_case ended

pollVars == <<pc, server, stop, user_id, calls, handled, yielded>>
labelerVars == <<CUSTOM_RULES, labelers, nreg, nload, last>>
stateVars == <<storage, checked>>
ruleVars == <<rule, event, evaluated, awaited>>
flagVars == <<rule_config, assigned, got>>

\* ------------------------------------------------------------------ bounds
MaxCalls == 5      \* transport requests issued in one run of listen()
MaxTs    == 1      \* cursor values 0..MaxTs returned by the transport
MaxHost  == 1      \* long-poll hosts 1..MaxHost returned by the transport

\* ------------------------------------------------------------ UserPolling
NoUser    == 0
SomeUser  == 7
NoTs      == 0 - 1
NoServer  == [server |-> 0, key |-> 0, ts |-> NoTs]
PollExceptions == {"ClientError", "TimeoutError"}

Resp(kind, ts, exc) == [kind |-> kind, ts |-> ts, exc |-> exc]
Pending == Resp("pending", NoTs, "")

Call(op, arg) == [op |-> op, arg |-> arg, resp |-> Pending]

\* The index of the request in flight (the last one issued).
InFlight == Len(calls)

Answer(r) == [calls EXCEPT ![InFlight].resp = r]

\* Session keys are fresh: the n-th descriptor handed out carries key n.
NextKey == Cardinality({i \in 1..Len(calls) : calls[i].op = "get_server"})

\* What messages.getLongPollServer may return for the request in flight.
Descriptors == [server : 1..MaxHost, key : {NextKey}, ts : 0..MaxTs]

\* UserPolling.__init__: stop = False; user_id as given (None or an id).
InitPolling ==
    /\ pc = "idle"
    /\ server = NoServer
    /\ stop = FALSE
    /\ user_id \in {NoUser, SomeUser}
    /\ calls = <<>>
    /\ handled = <<>>
    /\ yielded = <<>>

\* The owner of the polling object sets polling.stop = True.
SetStop ==
    /\ ~stop
    /\ pc \notin {"done", "raised"}
    /\ stop' = TRUE
    /\ UNCHANGED <<pc, server, user_id, calls, handled, yielded>>
    /\ UNCHANGED <<closed, labelerVars, stateVars, ruleVars, flagVars>>

\* listen(), line 49: the first iteration starts the initial get_server().
StartListen ==
    /\ pc = "idle"
    /\ Len(calls) < MaxCalls
    /\ calls' = Append(calls, Call("get_server", NoServer))
    /\ pc' = "acquire"
    /\ UNCHANGED <<server, stop, user_id, handled, yielded>>
    /\ UNCHANGED <<closed, labelerVars, stateVars, ruleVars, flagVars>>

\* get_server(): users.get fails (only asked when user_id is None).
UsersGetFails ==
    /\ user_id = NoUser
    /\ user_id' = user_id

\* get_server(): users.get answered (when asked), getLongPollServer decides.
UsersGetDone ==
    user_id' = (IF user_id = NoUser THEN SomeUser ELSE user_id)

\* listen(), line 49: the initial get_server() returns a descriptor.
AcquireReturns ==
    /\ pc = "acquire"
    /\ \E d \in Descriptors :
        /\ UsersGetDone
        /\ server' = d
        /\ calls' = Answer(Resp("ok", d.ts, ""))
        /\ pc' = "loop"
    /\ UNCHANGED <<stop, handled, yielded>>
    /\ UNCHANGED <<closed, labelerVars, stateVars, ruleVars, flagVars>>

\* listen(), line 49 is outside the try block: a failure of the initial
\* get_server() leaves listen() as an exception.
AcquireRaises ==
    /\ pc = "acquire"
    /\ UsersGetFails \/ UsersGetDone
    /\ calls' = Answer(Resp("error", NoTs, "VKAPIError"))
    /\ pc' = "raised"
    /\ UNCHANGED <<server, stop, handled, yielded>>
    /\ UNCHANGED <<closed, labelerVars, stateVars, ruleVars, flagVars>>

\* listen(), line 51: `while not self.stop` is false, the generator returns.
LoopExit ==
    /\ pc = "loop"
    /\ stop
    /\ pc' = "done"
    /\ UNCHANGED <<server, stop, user_id, calls, handled, yielded>>
    /\ UNCHANGED <<closed, labelerVars, stateVars, ruleVars, flagVars>>

\* listen(), lines 51-53: the loop condition holds, get_event(server) is sent
\* with the descriptor as it stands.
IssuePoll ==
    /\ pc = "loop"
    /\ ~stop
    /\ Len(calls) < MaxCalls
    /\ calls' = Append(calls, Call("get_event", server))
    /\ pc' = "poll"
    /\ UNCHANGED <<server, stop, user_id, handled, yielded>>
    /\ UNCHANGED <<closed, labelerVars, stateVars, ruleVars, flagVars>>

\* A plausible slip: the response is yielded but the cursor stays.
PollYields_KeepCursor ==
    /\ pc = "poll"
    /\ \E t \in 0..MaxTs :
        /\ calls' = Answer(Resp("ok", t, ""))
        /\ yielded' = Append(yielded, [call |-> InFlight, ts |-> t])
    /\ pc' = "yield"
    /\ UNCHANGED <<server, stop, user_id, handled>>
    /\ UNCHANGED <<closed, labelerVars, stateVars, ruleVars, flagVars>>

\* listen(), lines 57-58: the cursor is taken from the response and the
\* response is yielded; the generator is suspended at the yield.
PollYields ==
    /\ pc = "poll"
    /\ \E t \in 0..MaxTs :
        /\ calls' = Answer(Resp("ok", t, ""))
        /\ server' = [server EXCEPT !.ts = t]
        /\ yielded' = Append(yielded, [call |-> InFlight, ts |-> t])
    /\ pc' = "yield"
    /\ UNCHANGED <<stop, user_id, handled>>
    /\ UNCHANGED <<closed, labelerVars, stateVars, ruleVars, flagVars>>

\* The consumer asks for the next item: execution resumes after the yield.
Resume ==
    /\ pc = "yield"
    /\ pc' = "loop"
    /\ UNCHANGED <<server, stop, user_id, calls, handled, yielded>>
    /\ UNCHANGED <<closed, labelerVars, stateVars, ruleVars, flagVars>>

\* A plausible slip: the loop is continued without a new session.
SessionExpired_Stale(r) ==
    /\ calls' = Answer(r)
    /\ pc' = "loop"
    /\ UNCHANGED <<server, stop, user_id, handled, yielded>>

\* listen(), lines 54-55: the response has 'failed' set, get_server() is
\* called at once (the loop condition is not consulted in between).
SessionExpired(r) ==
    /\ calls' = Append(Answer(r), Call("get_server", NoServer))
    /\ pc' = "reacquire"
    /\ UNCHANGED <<server, stop, user_id, handled, yielded>>

PollExpires ==
    /\ pc = "poll"
    /\ Len(calls) < MaxCalls
    /\ \E t \in {NoTs} \cup 0..MaxTs : SessionExpired(Resp("failed", t, ""))
    /\ UNCHANGED <<closed, labelerVars, stateVars, ruleVars, flagVars>>

\* A plausible slip: an error is treated like an expired session, and a
\* new descriptor is requested once the handler has been called.
Caught_Reacquire(r) ==
    /\ calls' = Append(Answer(r), Call("get_server", NoServer))
    /\ handled' = Append(handled, [call |-> InFlight, exc |-> r.exc])
    /\ pc' = "reacquire"
    /\ UNCHANGED <<server, stop, user_id, yielded>>

\* listen(), lines 59-60: an exception raised inside the try block is passed
\* to error_handler.handle; `server` keeps its value.
Caught(r) ==
    /\ calls' = Answer(r)
    /\ handled' = Append(handled, [call |-> InFlight, exc |-> r.exc])
    /\ pc' = "handle"
    /\ UNCHANGED <<server, stop, user_id, yielded>>

\* get_event() raises (network failure, timeout).
PollRaises ==
    /\ pc = "poll"
    /\ \E e \in PollExceptions : Caught(Resp("error", NoTs, e))
    /\ UNCHANGED <<closed, labelerVars, stateVars, ruleVars, flagVars>>

\* The response has neither 'failed' nor 'ts': event["ts"] raises KeyError
\* at line 57, before the yield.
PollMalformed ==
    /\ pc = "poll"
    /\ Caught(Resp("malformed", NoTs, "KeyError"))
    /\ UNCHANGED <<closed, labelerVars, stateVars, ruleVars, flagVars>>

\* A plausible slip: the cursor of the expired response is kept.
ReacquireReturns_ExpiredCursor ==
    /\ pc = "reacquire"
    /\ \E d \in Descriptors :
        /\ UsersGetDone
        /\ server' = [d EXCEPT !.ts = calls[InFlight - 1].resp.ts]
        /\ calls' = Answer(Resp("ok", d.ts, ""))
    /\ pc' = "loop"
    /\ UNCHANGED <<stop, handled, yielded>>
    /\ UNCHANGED <<closed, labelerVars, stateVars, ruleVars, flagVars>>

\* listen(), lines 55-56: the new descriptor replaces `server`; continue.
ReacquireReturns ==
    /\ pc = "reacquire"
    /\ \E d \in Descriptors :
        /\ UsersGetDone
        /\ server' = d
        /\ calls' = Answer(Resp("ok", d.ts, ""))
    /\ pc' = "loop"
    /\ UNCHANGED <<stop, handled, yielded>>
    /\ UNCHANGED <<closed, labelerVars, stateVars, ruleVars, flagVars>>

\* listen(), line 55 is inside the try block: a failed re-acquisition is
\* caught at line 59.
ReacquireRaises ==
    /\ pc = "reacquire"
    /\ UsersGetFails \/ UsersGetDone
    /\ calls' = Answer(Resp("error", NoTs, "VKAPIError"))
    /\ handled' = Append(handled, [call |-> InFlight, exc |-> "VKAPIError"])
    /\ pc' = "handle"
    /\ UNCHANGED <<server, stop, yielded>>
    /\ UNCHANGED <<closed, labelerVars, stateVars, ruleVars, flagVars>>

\* error_handler.handle(e) returns; the loop condition is evaluated next.
HandlerReturns ==
    /\ pc = "handle"
    /\ pc' = "loop"
    /\ UNCHANGED <<server, stop, user_id, calls, handled, yielded>>
    /\ UNCHANGED <<closed, labelerVars, stateVars, ruleVars, flagVars>>

\* ------------------------------------------------------------- BotLabeler
MaxReg  == 2   \* decorator applications
MaxLoad == 1   \* load() calls

\* The labeler objects of a program: a router's labeler and a fragment that
\* can be loaded into it (or the other way round).
Labelers == {"bl", "fragment"}

\* Shorthand names: one of the built-in table and one that is not in it.
Names == {"text", "mine"}
NoRule == ""
\* The module-level CUSTOM_RULES as written in the source (the entry the
\* model keeps; the other nineteen behave alike).
DefaultRules == [n \in Names |-> IF n = "text" THEN "VBMLRule" ELSE NoRule]

\* What a caller may pass as custom_rules=...: nothing, a new name, or a
\* built-in name bound to another class.
NoKwargs == [n \in Names |-> NoRule]
CustomRuleKwargs ==
    { NoKwargs,
      [n \in Names |-> IF n = "mine" THEN "MyRule" ELSE NoRule],
      [n \in Names |-> IF n = "text" THEN "MyRule" ELSE NoRule] }

EventNames == {"group_join", "wall_post_new"}
EventLists == {<<>>, <<"group_join", "wall_post_new">>}
Middlewares == {"LogMiddleware"}

Rule(cls, arg, config) == [cls |-> cls, arg |-> arg, config |-> config]
PeerRule(from_chat) == Rule("PeerRule", from_chat, "")

\* The calls a program makes to a registration method: without rules, with
\* a positional rule and a built-in shorthand keyword, and with a positional
\* tuple of rules, a shorthand keyword of its own and blocking=False.
PlainCall == [rules |-> <<>>, kw |-> <<>>, blocking |-> TRUE]
RegistrationCalls ==
    { PlainCall,
      [ rules    |-> <<[kind |-> "rule", cls |-> "GeoRule"]>>,
        kw       |-> <<[k |-> "text", v |-> "hi"]>>,
        blocking |-> TRUE ],
      [ rules    |-> <<[kind |-> "tuple", cls |-> "GeoRule"]>>,
        kw       |-> <<[k |-> "mine", v |-> "x"]>>,
        blocking |-> FALSE ] }
AutoRuleInputs == {<<Rule("FromUserRule", "True", "")>>}

\* tools.dev_tools.utils.convert_shorten_filter: a tuple becomes an
\* AndFilter, a set an OrFilter, a rule is passed through.
convert_shorten_filter(sh) ==
    IF sh.kind = "tuple" THEN Rule("AndFilter", sh.cls, "")
    ELSE IF sh.kind = "set" THEN Rule("OrFilter", sh.cls, "")
    ELSE Rule(sh.cls, "", "")

MapShorten(rules) == [i \in 1..Len(rules) |-> convert_shorten_filter(rules[i])]

FromFuncHandler(func, rules, blocking) ==
    [func |-> func, rules |-> rules, blocking |-> blocking]
NoHandler == FromFuncHandler(0, <<>>, FALSE)
BotHandlerBasement(dataclass, handler) ==
    [dataclass |-> dataclass, handler |-> handler]
NoBasement == BotHandlerBasement("", NoHandler)

\* A labeler object; `exists` is false until the constructor has run.
NoLabeler ==
    [ exists              |-> FALSE,
      custom_rules        |-> "",
      auto_rules          |-> <<>>,
      message_handlers    |-> <<>>,
      message_middlewares |-> <<>>,
      raw_handlers        |-> [e \in EventNames |-> NoBasement],
      raw_middlewares     |-> <<>> ]

Created == {l \in Labelers : labelers[l].exists}

\* The last registration or load, and how it ended.
Op(op, l, other, kw, events, func, result) ==
    [op |-> op, l |-> l, other |-> other, kw |-> kw,
     events |-> events, func |-> func, result |-> result]
NoOp == Op("none", "", "", <<>>, <<>>, 0, "ok")

\* The dict object a labeler's custom_rules attribute refers to. Only one
\* such object exists: line 78 stores the module-level dict itself.
Deref(ref) == CUSTOM_RULES
Table(l) == Deref(labelers[l].custom_rules)

InitLabeler ==
    /\ CUSTOM_RULES = DefaultRules
    /\ labelers = [l \in Labelers |-> NoLabeler]
    /\ nreg = 0
    /\ nload = 0
    /\ last = NoOp

\* dict.update (line 76): the given names are (re)bound in the table.
DictUpdate(table, kw) ==
    [n \in DOMAIN table |-> IF kw[n] # NoRule THEN kw[n] ELSE table[n]]

\* BotLabeler.__init__ (lines 69-85).
NewLabeler(l, kw) ==
    /\ ~labelers[l].exists
    /\ CUSTOM_RULES' = DictUpdate(CUSTOM_RULES, kw)
    /\ labelers' = [labelers EXCEPT ![l] =
          [NoLabeler EXCEPT !.exists = TRUE, !.custom_rules = "CUSTOM_RULES"]]
    /\ UNCHANGED <<nreg, nload, last>>
    /\ UNCHANGED <<pollVars, closed, stateVars, ruleVars, flagVars>>

\* labeler.auto_rules = [...] (the attribute of line 79).
SetAutoRules(l, rules) ==
    /\ labelers[l].exists
    /\ labelers[l].auto_rules # rules
    /\ labelers' = [labelers EXCEPT ![l].auto_rules = rules]
    /\ UNCHANGED <<CUSTOM_RULES, nreg, nload, last>>
    /\ UNCHANGED <<pollVars, closed, stateVars, ruleVars, flagVars>>

\* A middleware is appended to one of the labeler's views.
RegisterMiddleware(l, view, m) ==
    /\ labelers[l].exists
    /\ IF view = "message"
       THEN /\ labelers[l].message_middlewares = <<>>
            /\ labelers' = [labelers EXCEPT ![l].message_middlewares = Append(@, m)]
       ELSE /\ labelers[l].raw_middlewares = <<>>
            /\ labelers' = [labelers EXCEPT ![l].raw_middlewares = Append(@, m)]
    /\ UNCHANGED <<CUSTOM_RULES, nreg, nload, last>>
    /\ UNCHANGED <<pollVars, closed, stateVars, ruleVars, flagVars>>

\* A plausible slip: unknown names are skipped instead of raising.
get_custom_rules_Lenient(l, kw) ==
    LET known == SelectSeq(kw, LAMBDA c : Table(l)[c.k] # NoRule) IN
    [ raised |-> FALSE,
      rules  |-> [i \in 1..Len(known) |->
                    Rule(Table(l)[known[i].k], known[i].v, l)] ]

\* BotLabeler.get_custom_rules (lines 202-203): each name is looked up in
\* self.custom_rules (KeyError when it is not there), configured with the
\* labeler's rule_config and instantiated.
get_custom_rules(l, kw) ==
    [ raised |-> \E i \in 1..Len(kw) : Table(l)[kw[i].k] = NoRule,
      rules  |-> [i \in 1..Len(kw) |-> Rule(Table(l)[kw[i].k], kw[i].v, l)] ]

\* A plausible slip: the handler is put in front of the list.
ListAppend_Front(list, x) == <<x>> \o list

\* list.append (lines 121, 138, 156).
ListAppend(list, x) == Append(list, x)

\* list.extend (lines 197, 198, 200).
ListExtend(list, other) == list \o other

\* The decorator bodies of message / chat_message / private_message (lines
\* 120-130, 137-148, 155-166): the arguments of FromFuncHandler are
\* evaluated first, so a KeyError leaves the list untouched.
Decorate(l, op, first, c) ==
    LET custom == get_custom_rules(l, c.kw)
        func   == nreg + 1
        h      == FromFuncHandler(
                      func,
                      first \o MapShorten(c.rules) \o labelers[l].auto_rules
                            \o custom.rules,
                      c.blocking)
    IN  /\ labelers[l].exists
        /\ nreg < MaxReg
        /\ nreg' = func
        /\ IF custom.raised
           THEN /\ labelers' = labelers
                /\ last' = Op(op, l, "", c.kw, <<>>, func, "KeyError")
           ELSE /\ labelers' = [labelers EXCEPT
                        ![l].message_handlers = ListAppend(@, h)]
                /\ last' = Op(op, l, "", c.kw, <<>>, func, "ok")
        /\ UNCHANGED <<CUSTOM_RULES, nload>>
        /\ UNCHANGED <<pollVars, closed, stateVars, ruleVars, flagVars>>

\* BotLabeler.message (lines 117-132).
message(l, c) == Decorate(l, "message", <<>>, c)

\* A plausible slip: chat_message filters like private_message.
chat_message_Private(l, c) ==
    Decorate(l, "chat_message", <<PeerRule("False")>>, c)

\* BotLabeler.chat_message (lines 134-150).
chat_message(l, c) == Decorate(l, "chat_message", <<PeerRule("True")>>, c)

\* BotLabeler.private_message (lines 152-168).
private_message(l, c) ==
    Decorate(l, "private_message", <<PeerRule("False")>>, c)

\* handlers[e] = basement (line 183): the entry of e is bound, replacing
\* whatever was bound to e before.
SetItem(dict, e, basement) == [dict EXCEPT ![e] = basement]

\* The loop of lines 182-191 over the event names.
RECURSIVE RawLoop(_, _, _)
RawLoop(dict, events, basement) ==
    IF events = <<>> THEN dict
    ELSE RawLoop(SetItem(dict, Head(events), basement), Tail(events), basement)

\* BotLabeler.raw_event's decorator (lines 181-192); no blocking flag is
\* passed, FromFuncHandler's default applies. With no event name the loop
\* body never runs and the keyword rules are never resolved.
RawDecorate(l, events, c) ==
    LET custom == get_custom_rules(l, c.kw)
        func   == nreg + 1
        h      == FromFuncHandler(
                      func,
                      MapShorten(c.rules) \o labelers[l].auto_rules
                            \o custom.rules,
                      TRUE)
        b      == BotHandlerBasement("dict", h)
    IN  /\ labelers[l].exists
        /\ nreg < MaxReg
        /\ nreg' = func
        /\ IF events # <<>> /\ custom.raised
           THEN /\ labelers' = labelers
                /\ last' = Op("raw_event", l, "", c.kw, events, func, "KeyError")
           ELSE /\ labelers' = [labelers EXCEPT
                        ![l].raw_handlers = RawLoop(@, events, b)]
                /\ last' = Op("raw_event", l, "", c.kw, events, func, "ok")
        /\ UNCHANGED <<CUSTOM_RULES, nload>>
        /\ UNCHANGED <<pollVars, closed, stateVars, ruleVars, flagVars>>

\* BotLabeler.raw_event called with one event name (lines 178-179 wrap it).
raw_event_str(l, e, c) == RawDecorate(l, <<e>>, c)

\* BotLabeler.raw_event called with a list of event names.
raw_event_list(l, es, c) == RawDecorate(l, es, c)

\* dict.update (line 199): every key of other is (re)bound in dict.
HandlersUpdate(dict, other) ==
    [e \in DOMAIN dict |-> IF other[e] # NoBasement THEN other[e] ELSE dict[e]]

\* BotLabeler.load (lines 196-200).
load(l, o) ==
    /\ labelers[l].exists /\ labelers[o].exists
    /\ nload < MaxLoad
    /\ nload' = nload + 1
    /\ labelers' = [labelers EXCEPT ![l] =
          [@ EXCEPT
             !.message_handlers =
                 ListExtend(@, labelers[o].message_handlers),
             !.message_middlewares =
                 ListExtend(@, labelers[o].message_middlewares),
             !.raw_handlers =
                 HandlersUpdate(@, labelers[o].raw_handlers),
             !.raw_middlewares =
                 ListExtend(@, labelers[o].raw_middlewares)]]
    /\ last' = Op("load", l, o, <<>>, <<>>, 0, "ok")
    /\ UNCHANGED <<CUSTOM_RULES, nreg>>
    /\ UNCHANGED <<pollVars, closed, stateVars, ruleVars, flagVars>>

\* Construction and registration.
NextLabeler ==
    \/ \E l \in Labelers, kw \in CustomRuleKwargs : NewLabeler(l, kw)
    \/ \E l \in Labelers, rules \in AutoRuleInputs : SetAutoRules(l, rules)
    \/ \E l \in Labelers, c \in RegistrationCalls : message(l, c)
    \/ \E l \in Labelers, c \in RegistrationCalls : chat_message(l, c)
    \/ \E l \in Labelers, c \in RegistrationCalls : private_message(l, c)
    \/ \E l \in Labelers, e \in EventNames, c \in RegistrationCalls :
          raw_event_str(l, e, c)
    \/ \E l \in Labelers, es \in EventLists, c \in RegistrationCalls :
          raw_event_list(l, es, c)

\* Labelers are constructed and given auto rules, and handlers are
\* registered for one direction (chat or private).
NextDirection ==
    \/ \E l \in Labelers, kw \in CustomRuleKwargs : NewLabeler(l, kw)
    \/ \E l \in Labelers, rules \in AutoRuleInputs : SetAutoRules(l, rules)
    \/ \E l \in Labelers, c \in RegistrationCalls : chat_message(l, c)
    \/ \E l \in Labelers, c \in RegistrationCalls : private_message(l, c)

\* Fragments are filled and loaded into one another.
NextLoad ==
    \/ \E l \in Labelers : NewLabeler(l, NoKwargs)
    \/ \E l \in Labelers : message(l, PlainCall)
    \/ \E l \in Labelers, e \in EventNames : raw_event_str(l, e, PlainCall)
    \/ \E l \in Labelers, view \in {"message", "raw"}, m \in Middlewares :
          RegisterMiddleware(l, view, m)
    \/ \E l \in Labelers, o \in Labelers : load(l, o)

\* ------------------------------------------------- state store, StateRule
MaxPeers == 2      \* peers 1..MaxPeers

Peers == 1..MaxPeers
StateValues == {"MENU", "ORDER"}
\* None: no entry in the store, no state_peer on the message.
NoState == ""

\* What a caller may pass to StateRule(...): None, one state, a list.
StateConfigs ==
    {[kind |-> "none", items |-> <<>>]}
        \cup {[kind |-> "single", items |-> <<x>>] : x \in StateValues}
        \cup {[kind |-> "list", items |-> q] :
                q \in {<<>>, <<"MENU">>, <<"ORDER">>, <<"MENU", "ORDER">>}}

NoCheck == [peer |-> 0, config |-> [kind |-> "none", items |-> <<>>],
            state |-> <<>>, state_peer |-> NoState, result |-> FALSE]

InitState ==
    /\ storage = [p \in Peers |-> NoState]
    /\ checked = NoCheck

\* The store's set(peer_id, state): the entry is created or overwritten.
StateSet(p, x) ==
    /\ storage' = [storage EXCEPT ![p] = x]
    /\ UNCHANGED checked
    /\ UNCHANGED <<pollVars, closed, labelerVars, ruleVars, flagVars>>

\* The store's delete(peer_id) of an existing entry.
StateDelete(p) ==
    /\ storage[p] # NoState
    /\ storage' = [storage EXCEPT ![p] = NoState]
    /\ UNCHANGED checked
    /\ UNCHANGED <<pollVars, closed, labelerVars, ruleVars, flagVars>>

\* The store's get(peer_id), which the view puts on message.state_peer.
StateGet(p) == storage[p]

\* StateRule.__init__ (lines 248-251): None becomes the empty list, a single
\* state a one-element list, a list is kept.
StateRule(config) ==
    IF config.kind # "list"
    THEN (IF config.kind = "none" THEN <<>> ELSE <<config.items[1]>>)
    ELSE config.items

\* A plausible slip: the empty list is looked up like any other.
StateRule_check_NoAbsence(state, state_peer) ==
    \E i \in 1..Len(state) : state[i] = state_peer

\* StateRule.check (lines 253-256).
StateRule_check(state, state_peer) ==
    IF state_peer = NoState
    THEN state = <<>>
    ELSE \E i \in 1..Len(state) : state[i] = state_peer

\* A message of peer p is dispatched against StateRule(config).
CheckStateRule(p, config) ==
    /\ checked' = [ peer       |-> p,
                    config     |-> config,
                    state      |-> StateRule(config),
                    state_peer |-> StateGet(p),
                    result     |-> StateRule_check(StateRule(config), StateGet(p)) ]
    /\ UNCHANGED storage
    /\ UNCHANGED <<pollVars, closed, labelerVars, ruleVars, flagVars>>

NextState ==
    \/ \E p \in Peers, x \in StateValues : StateSet(p, x)
    \/ \E p \in Peers : StateDelete(p)
    \/ \E p \in Peers, config \in StateConfigs : CheckStateRule(p, config)

\* ----------------------------------------------------------- message rules
MaxLen         == 3   \* characters in a text
MaxDistance    == 2   \* max_distance 0..MaxDistance
MaxAttachments == 2   \* attachments of one message
MaxSticker     == 2   \* sticker ids 1..MaxSticker
MaxEvals       == 2   \* evaluations of one rule instance

\* Optional values: None, or the value that is present.
None == <<>>
Some(v) == <<v>>

\* str values are sequences of characters; "" is <<>>.
Strings == UNION {[1..n -> {"a", "b"}] : n \in 0..MaxLen}

\* The fields of MessageMin the rules below read.  An attachment carries its
\* type and, for a sticker, the sticker object (its sticker_id).
Attachment(type, sticker) == [type |-> type, sticker |-> sticker]
StickerIds == 1..MaxSticker
Attachments ==
    {Attachment(t, None) : t \in {"photo", "video"}}
        \cup {Attachment("sticker", Some(n)) : n \in StickerIds}
AttachmentLists == UNION {[1..n -> Attachments] : n \in 0..MaxAttachments}
ActionTypes == {"chat_invite_user", "chat_kick_user"}

Message(text, attachments, action) ==
    [text |-> text, attachments |-> attachments, action |-> action]
NoMessage == Message(None, None, None)

\* Messages that differ in the one field a rule reads.
TextMessages ==
    {Message(t, None, None) : t \in {None} \cup {Some(s) : s \in Strings}}
AttachmentMessages ==
    {Message(Some(<<>>), a, None) :
        a \in {None} \cup {Some(q) : q \in AttachmentLists}}
ActionMessages ==
    {Message(Some(<<>>), None, a) :
        a \in {None} \cup {Some(t) : t \in ActionTypes}}
\* Events that may follow the first one on the same rule instance.
FollowUps ==
    { NoMessage,
      Message(Some(<<"a">>), Some(<<Attachment("photo", None)>>),
              Some("chat_invite_user")) }

\* What check() does: return a value or raise.
Returned(v) == [raised |-> "", result |-> v]
Raised(e) == [raised |-> e, result |-> ""]
\* bool results as the log shows them.
Bool(b) == IF b THEN "True" ELSE "False"
\* Python numbers that may be given as a sticker id: an int, or a bool,
\* which is an int with True == 1 and False == 0.
PyInt(n) == [type |-> "int", value |-> n]
PyBool(b) == [type |-> "bool", value |-> IF b THEN 1 ELSE 0]

\* A constructor argument that is one value or a list of values.
One(v) == [kind |-> "one", items |-> <<v>>]
List(q) == [kind |-> "list", items |-> q]
\* `if not isinstance(x, list): x = [x]` (and the isinstance(x, str) variant
\* for arguments that are a str or a list).
AsList(config) ==
    IF config.kind # "list" THEN <<config.items[1]>> ELSE config.items
In(x, list) == \E k \in 1..Len(list) : list[k] = x
\* `n in list` for a list of numbers: == compares the values.
PyIn(n, list) == \E k \in 1..Len(list) : list[k].value = n

\* ---- PeerRule (user.py lines 33-38), on the rule objects the labeler
\* creates: `self.from_chat is (message.peer_id != message.from_id)`.
PeerRule_check(self, peer_id, from_id) ==
    (self.arg = "True") = (peer_id # from_id)

\* ---- LevensteinRule (user.py lines 158-191)
LevensteinConfigs ==
    {One(s) : s \in Strings}
        \cup {List(q) : q \in {<<>>, <<<<"a">>, <<"b", "a">>>>,
                                <<<<"a", "b">>, <<>>>>}}
LevensteinRule(levenstein_texts, max_distance) ==
    [ cls              |-> "LevensteinRule",
      levenstein_texts |-> AsList(levenstein_texts),
      max_distance     |-> max_distance ]

Min3(x, y, z) ==
    IF x <= y THEN (IF x <= z THEN x ELSE z) ELSE (IF y <= z THEN y ELSE z)

\* A slip in lines 181-182: a substitution costs nothing.
Cell_FreeChange(a, b, i, j, previous_row, current_row) ==
    Min3(previous_row[j] + 1, current_row[j - 1] + 1, previous_row[j - 1])

\* distance(), lines 176-183: the value stored in current_row[j].  Python
\* indexes a and b from 0, sequences are indexed from 1.
Cell(a, b, i, j, previous_row, current_row) ==
    LET add    == previous_row[j] + 1
        delete == current_row[j - 1] + 1
        change == previous_row[j - 1]
    IN  Min3(add, delete, IF a[j] # b[i] THEN change + 1 ELSE change)

\* distance(), lines 175-183: `for j in range(1, n + 1)`.
RECURSIVE InnerLoop(_, _, _, _, _, _)
InnerLoop(a, b, i, j, previous_row, current_row) ==
    IF j > Len(a)
    THEN current_row
    ELSE InnerLoop(a, b, i, j + 1, previous_row,
            [current_row EXCEPT
                ![j] = Cell(a, b, i, j, previous_row, current_row)])

\* distance(), lines 173-174: `for i in range(1, m + 1)`; the new current
\* row is [i] + [0] * n.
RECURSIVE OuterLoop(_, _, _, _)
OuterLoop(a, b, i, current_row) ==
    IF i > Len(b)
    THEN current_row
    ELSE OuterLoop(a, b, i + 1,
            InnerLoop(a, b, i, 1, current_row,
                [j \in 0..Len(a) |-> IF j = 0 THEN i ELSE 0]))

\* LevensteinRule.distance (lines 165-185): the shorter string becomes a,
\* the first row is range(n + 1), the result is current_row[n].
distance(a, b) ==
    LET swap    == Len(a) > Len(b)
        shorter == IF swap THEN b ELSE a
        longer  == IF swap THEN a ELSE b
    IN  OuterLoop(shorter, longer, 1,
            [j \in 0..Len(shorter) |-> j])[Len(shorter)]

\* LevensteinRule.check (lines 187-191).  distance() starts with len(a):
\* with text None the first iteration raises TypeError.
LevensteinRule_check(self, msg) ==
    IF self.levenstein_texts = <<>>
    THEN Returned("False")
    ELSE IF msg.text = None
    THEN Raised("TypeError")
    ELSE Returned(Bool(\E k \in 1..Len(self.levenstein_texts) :
            distance(msg.text[1], self.levenstein_texts[k])
                <= self.max_distance))

\* ---- StickerRule (lines 104-115)
StickerConfigs ==
    {One(PyInt(n)) : n \in StickerIds}
        \cup {One(PyBool(b)) : b \in BOOLEAN}
        \cup {List(q) : q \in {<<>>, <<PyInt(1)>>, <<PyInt(2)>>,
                                <<PyInt(1), PyInt(2)>>}}
StickerRule(sticker_ids) ==
    [cls |-> "StickerRule", sticker_ids |-> AsList(sticker_ids)]

\* `message.attachments and message.attachments[0].sticker`
FirstSticker(msg) ==
    IF msg.attachments = None \/ msg.attachments = Some(<<>>)
    THEN None
    ELSE msg.attachments[1][1].sticker

\* StickerRule.check (lines 110-115).
StickerRule_check(self, msg) ==
    IF FirstSticker(msg) # None
    THEN Returned(Bool(self.sticker_ids = <<>>
                        \/ PyIn(FirstSticker(msg)[1], self.sticker_ids)))
    ELSE Returned("False")

\* ---- AttachmentTypeRule (lines 128-140)
AttachmentTypeConfigs ==
    {One(t) : t \in {"photo", "video", "sticker"}}
        \cup {List(q) : q \in {<<>>, <<"photo">>, <<"photo", "video">>}}
AttachmentTypeRule(attachment_types) ==
    [ cls              |-> "AttachmentTypeRule",
      attachment_types |-> AsList(attachment_types) ]

\* A slip in lines 137-140: one attachment of a configured type is enough.
AttachmentTypeRule_check_Any(self, msg) ==
    IF msg.attachments = None \/ msg.attachments = Some(<<>>)
    THEN Returned("False")
    ELSE Returned(Bool(\E k \in 1..Len(msg.attachments[1]) :
            In(msg.attachments[1][k].type, self.attachment_types)))

\* AttachmentTypeRule.check (lines 134-140).
AttachmentTypeRule_check(self, msg) ==
    IF msg.attachments = None \/ msg.attachments = Some(<<>>)
    THEN Returned("False")
    ELSE Returned(Bool(\A k \in 1..Len(msg.attachments[1]) :
            In(msg.attachments[1][k].type, self.attachment_types)))

\* ---- MessageLengthRule (lines 194-199)
MessageLengthRule(min_length) ==
    [cls |-> "MessageLengthRule", min_length |-> min_length]

\* MessageLengthRule.check: len(None) raises TypeError.
MessageLengthRule_check(self, msg) ==
    IF msg.text = None
    THEN Raised("TypeError")
    ELSE Returned(Bool(Len(msg.text[1]) >= self.min_length))

\* ---- RegexRule (lines 85-101), for patterns without metacharacters
RegexConfigs ==
    {One(s) : s \in {<<>>, <<"a">>, <<"a", "b">>}}
        \cup {List(q) : q \in {<<>>, <<<<"b">>, <<"a", "a">>>>}}
RegexRule(regexp) == [cls |-> "RegexRule", regexp |-> AsList(regexp)]

\* re.match(regexp, text) for a literal pattern: the text starts with it.
re_match(regexp, text) ==
    /\ Len(regexp) <= Len(text)
    /\ \A k \in 1..Len(regexp) : text[k] = regexp[k]

\* RegexRule.check (lines 96-101): re.match(regexp, None) raises
\* TypeError; a match returns {"match": match.groups()}.
RegexRule_check(self, msg) ==
    IF self.regexp = <<>>
    THEN Returned("False")
    ELSE IF msg.text = None
    THEN Raised("TypeError")
    ELSE IF \E k \in 1..Len(self.regexp) : re_match(self.regexp[k], msg.text[1])
    THEN Returned("dict")
    ELSE Returned("False")

\* ---- ChatActionRule (lines 202-209)
ChatActionConfigs ==
    {One(t) : t \in ActionTypes} \cup {List(<<>>), List(<<"chat_kick_user">>)}
ChatActionRule(chat_action_types) ==
    [ cls               |-> "ChatActionRule",
      chat_action_types |-> AsList(chat_action_types) ]

\* ChatActionRule.check: `message.action and ...` is None when the action
\* is None.
ChatActionRule_check(self, msg) ==
    IF msg.action = None
    THEN Returned("None")
    ELSE Returned(Bool(In(msg.action[1], self.chat_action_types)))

\* ---- FuncRule (lines 229-236) with functions that only read the message
Funcs == {"has_text", "has_attachments"}
\* has_attachments is declared `async def`.
iscoroutinefunction(func) == func = "has_attachments"
Apply(func, msg) ==
    IF func = "has_text"
    THEN msg.text # None /\ msg.text # Some(<<>>)
    ELSE msg.attachments # None /\ msg.attachments # Some(<<>>)
FuncRule(func) == [cls |-> "FuncRule", func |-> func]

\* FuncRule.check: awaited or not, the value is what func(message) computes.
FuncRule_check(self, msg) ==
    IF iscoroutinefunction(self.func)
    THEN Returned(Bool(Apply(self.func, msg)))
    ELSE Returned(Bool(Apply(self.func, msg)))

\* ---- CoroutineRule (lines 239-244)
\* A coroutine object, named by the value it returns when awaited.
Coroutines == {"True", "False"}
CoroutineRule(coroutine) == [cls |-> "CoroutineRule", coro |-> coroutine]

\* CoroutineRule.check: `return await self.coro`.  A coroutine object runs
\* once; awaiting it again raises RuntimeError (cannot reuse already awaited
\* coroutine).
CoroutineRule_check(self, msg, was_awaited) ==
    IF was_awaited THEN Raised("RuntimeError") ELSE Returned(self.coro)

\* rule.check(message), by class.
Check(self, msg, was_awaited) ==
    CASE self.cls = "LevensteinRule"     -> LevensteinRule_check(self, msg)
      [] self.cls = "StickerRule"        -> StickerRule_check(self, msg)
      [] self.cls = "AttachmentTypeRule" -> AttachmentTypeRule_check(self, msg)
      [] self.cls = "MessageLengthRule"  -> MessageLengthRule_check(self, msg)
      [] self.cls = "RegexRule"          -> RegexRule_check(self, msg)
      [] self.cls = "ChatActionRule"     -> ChatActionRule_check(self, msg)
      [] self.cls = "FuncRule"           -> FuncRule_check(self, msg)
      [] self.cls = "CoroutineRule"      ->
            CoroutineRule_check(self, msg, was_awaited)

NoInstance == [cls |-> ""]

\* No rule is under evaluation.
InitNoRule ==
    /\ rule = NoInstance
    /\ event = NoMessage
    /\ evaluated = <<>>
    /\ awaited = FALSE

\* A rule instance is constructed and a message arrives for it.
InitRule ==
    /\ \/ \E c \in LevensteinConfigs, d \in 0..MaxDistance :
            rule = LevensteinRule(c, d) /\ event \in TextMessages
       \/ \E c \in StickerConfigs :
            rule = StickerRule(c) /\ event \in AttachmentMessages
       \/ \E c \in AttachmentTypeConfigs :
            rule = AttachmentTypeRule(c) /\ event \in AttachmentMessages
       \/ \E n \in 0..MaxLen :
            rule = MessageLengthRule(n) /\ event \in TextMessages
       \/ \E c \in RegexConfigs :
            rule = RegexRule(c) /\ event \in TextMessages
       \/ \E c \in ChatActionConfigs :
            rule = ChatActionRule(c) /\ event \in ActionMessages
       \/ \E f \in Funcs :
            rule = FuncRule(f) /\ event \in TextMessages \cup AttachmentMessages
       \/ \E c \in Coroutines :
            rule = CoroutineRule(c) /\ event \in TextMessages
    /\ evaluated = <<>>
    /\ awaited = FALSE

\* The handler's filter evaluates rule.check(message) and the outcome is
\* logged with the message it was computed for.
CheckRule ==
    /\ Len(evaluated) < MaxEvals
    /\ LET o == Check(rule, event, awaited)
       IN  evaluated' = Append(evaluated,
                [message |-> event, raised |-> o.raised, result |-> o.result])
    /\ awaited' = (awaited \/ rule.cls = "CoroutineRule")
    /\ UNCHANGED <<rule, event>>
    /\ UNCHANGED <<pollVars, closed, labelerVars, stateVars, flagVars>>

\* Another event reaches the same handler, hence the same rule instance.
NextEvent ==
    /\ Len(evaluated) < MaxEvals
    /\ \E m \in FollowUps : event # m /\ event' = m
    /\ UNCHANGED <<rule, evaluated, awaited>>
    /\ UNCHANGED <<pollVars, closed, labelerVars, stateVars, flagVars>>

NextRules == CheckRule

NextPurity == CheckRule \/ NextEvent

\* ------------------------------------------------ consumer of listen()
\* What closing the iterator and cancelling the consuming task raise inside
\* listen(); both derive from BaseException, not from Exception.
CloseExceptions == {"GeneratorExit", "CancelledError"}

\* The consumer closes the iterator (aclose) while listen() is suspended at
\* the yield of line 58: GeneratorExit is raised there, inside the try
\* block, and `except BaseException` (line 59) catches it.
CloseAtYield ==
    /\ pc = "yield"
    /\ ~closed
    /\ closed' = TRUE
    /\ handled' = Append(handled, [call |-> 0, exc |-> "GeneratorExit"])
    /\ pc' = "handle"
    /\ UNCHANGED <<server, stop, user_id, calls, yielded>>
    /\ UNCHANGED <<labelerVars, stateVars, ruleVars, flagVars>>

\* The consuming task is cancelled while listen() awaits get_event (line
\* 53) or the get_server of line 55: CancelledError is raised at the await,
\* inside the try block, and caught at line 59.
CancelInFlight ==
    /\ pc \in {"poll", "reacquire"}
    /\ ~closed
    /\ closed' = TRUE
    /\ calls' = Answer(Resp("cancelled", NoTs, "CancelledError"))
    /\ handled' = Append(handled, [call |-> InFlight, exc |-> "CancelledError"])
    /\ pc' = "handle"
    /\ UNCHANGED <<server, stop, user_id, yielded>>
    /\ UNCHANGED <<labelerVars, stateVars, ruleVars, flagVars>>

\* The task is cancelled during the initial get_server of line 49, which is
\* outside the try block: CancelledError leaves listen().
CancelAcquire ==
    /\ pc = "acquire"
    /\ ~closed
    /\ closed' = TRUE
    /\ calls' = Answer(Resp("cancelled", NoTs, "CancelledError"))
    /\ pc' = "raised"
    /\ UNCHANGED <<server, stop, user_id, handled, yielded>>
    /\ UNCHANGED <<labelerVars, stateVars, ruleVars, flagVars>>

\* -------------------------------------------- BotLabeler.rule_config
\* re.RegexFlag values are sets of flags: | is union, ^ the symmetric
\* difference, `flag in flags` membership.
RegexFlags == {"IGNORECASE", "MULTILINE", "DOTALL", "VERBOSE", "ASCII"}

NoGet == [raised |-> "", result |-> ""]
NotAssigned == [done |-> FALSE, ignore_case |-> FALSE, before |-> {}]

\* BotLabeler.__init__, lines 82-85.
InitRuleConfig ==
    /\ rule_config = [vbml_flags |-> {"MULTILINE"}, vbml_patcher |-> "Patcher"]
    /\ assigned = NotAssigned
    /\ got = NoGet

\* vbml_flags setter (lines 113-115).
SetVbmlFlags(flags) ==
    /\ rule_config' = [rule_config EXCEPT !["vbml_flags"] = flags]
    /\ assigned' = NotAssigned
    /\ got' = NoGet
    /\ UNCHANGED <<pollVars, closed, labelerVars, stateVars, ruleVars>>

\* vbml_ignore_case setter (lines 92-99).
SetIgnoreCase(ignore_case) ==
    /\ rule_config' =
            [rule_config EXCEPT !["vbml_flags"] =
                IF ~ignore_case
                THEN (@ \ {"IGNORECASE"}) \cup ({"IGNORECASE"} \ @)
                ELSE @ \cup {"IGNORECASE"}]
    /\ assigned' = [ done        |-> TRUE,
                     ignore_case |-> ignore_case,
                     before      |-> rule_config["vbml_flags"] ]
    /\ got' = NoGet
    /\ UNCHANGED <<pollVars, closed, labelerVars, stateVars, ruleVars>>

\* vbml_ignore_case getter (lines 87-90): it subscripts rule_config with
\* "flags"; a missing key raises KeyError.
GetIgnoreCase ==
    /\ got' = IF "flags" \in DOMAIN rule_config
              THEN Returned(Bool("IGNORECASE" \in rule_config["flags"]))
              ELSE Raised("KeyError")
    /\ UNCHANGED <<rule_config, assigned>>
    /\ UNCHANGED <<pollVars, closed, labelerVars, stateVars, ruleVars>>

NextConfig ==
    \/ \E flags \in SUBSET RegexFlags : SetVbmlFlags(flags)
    \/ \E ignore_case \in BOOLEAN : SetIgnoreCase(ignore_case)
    \/ GetIgnoreCase

vars == <<pollVars, closed, labelerVars, stateVars, ruleVars, flagVars>>

Init ==
    /\ InitPolling /\ closed = FALSE
    /\ InitLabeler /\ InitState /\ InitNoRule /\ InitRuleConfig

Next ==
    \/ SetStop
    \/ StartListen
    \/ AcquireReturns
    \/ AcquireRaises
    \/ LoopExit
    \/ IssuePoll
    \/ PollYields
    \/ Resume
    \/ PollExpires
    \/ PollRaises
    \/ PollMalformed
    \/ ReacquireReturns
    \/ ReacquireRaises
    \/ HandlerReturns

Spec == Init /\ [][Next]_vars

\* listen() with a consumer that may close the iterator or be cancelled.
NextClose ==
    \/ Next
    \/ CloseAtYield
    \/ CancelInFlight
    \/ CancelAcquire

SpecClose == Init /\ [][NextClose]_vars

\* The other specifications leave the polling object as constructed.
InitIdle == Init /\ user_id = NoUser

SpecLabeler == InitIdle /\ [][NextLabeler]_vars

SpecLoad == InitIdle /\ [][NextLoad]_vars

SpecDirection == InitIdle /\ [][NextDirection]_vars

SpecState == InitIdle /\ [][NextState]_vars

\* A rule instance and a message are given; everything else is as in
\* InitIdle.
InitRules ==
    /\ InitPolling /\ user_id = NoUser /\ closed = FALSE
    /\ InitLabeler /\ InitState /\ InitRule /\ InitRuleConfig

SpecRules == InitRules /\ [][NextRules]_vars

SpecPurity == InitRules /\ [][NextPurity]_vars

SpecConfig == InitIdle /\ [][NextConfig]_vars

\* ---------------------------------------------------- UserPolling: claims
HandledFor(i) == {j \in 1..Len(handled) : handled[j].call = i}
YieldedFor(i) == {j \in 1..Len(yielded) : yielded[j].call = i}

\* C1: whenever a poll returns a session-expired response ('failed' set),
\* the transport request that follows it is a get_server, and it has been
\* issued by the time the response is processed.
C1_ExpiredThenAcquire ==
    \A i \in 1..Len(calls) :
        (calls[i].op = "get_event" /\ calls[i].resp.kind = "failed")
            => (i < Len(calls) /\ calls[i + 1].op = "get_server")

\* C1 witness: an expired poll was followed by a completed re-acquisition.
C1_Witness ==
    \E i \in 1..(Len(calls) - 1) :
        /\ calls[i].op = "get_event" /\ calls[i].resp.kind = "failed"
        /\ calls[i + 1].op = "get_server" /\ calls[i + 1].resp.kind = "ok"

\* C2: when a poll raises, the error handler is invoked exactly once with
\* that exception, nothing is yielded for that poll, and the request that
\* follows (if listen issues one) is a poll with the same server, key and ts.
C2_ErrorKeepsSession ==
    \A i \in 1..Len(calls) :
        (calls[i].op = "get_event" /\ calls[i].resp.kind = "error")
            => /\ Cardinality(HandledFor(i)) = 1
               /\ \A j \in HandledFor(i) : handled[j].exc = calls[i].resp.exc
               /\ YieldedFor(i) = {}
               /\ i < Len(calls) =>
                    /\ calls[i + 1].op = "get_event"
                    /\ calls[i + 1].arg = calls[i].arg

\* C2 witness: a poll raised and the next poll went out with the same session.
C2_Witness ==
    \E i \in 1..(Len(calls) - 1) :
        /\ calls[i].op = "get_event" /\ calls[i].resp.kind = "error"
        /\ calls[i + 1].op = "get_event" /\ calls[i + 1].arg = calls[i].arg
        /\ Cardinality(HandledFor(i)) = 1

\* C3 (as claimed): once the stop flag is set while listen is running, no
\* further transport request is issued, whatever the in-flight one returns.
C3_NoRequestAfterStop ==
    [][(stop /\ pc # "idle") => Len(calls') = Len(calls)]_vars

\* C4 (as claimed): every failed transport call (initial acquisition,
\* re-acquisition, poll, malformed response) is reported to the error
\* handler, and no failure propagates out of listen.
C4_FailuresRecovered ==
    /\ pc # "raised"
    /\ \A i \in 1..Len(calls) :
        calls[i].resp.kind \in {"error", "malformed"} => HandledFor(i) # {}

\* ----------------------------------------------------- BotLabeler: claims
\* The handlers a view holds for one raw-event name, as a list.
RawHandlersOf(lab, e) ==
    IF lab.raw_handlers[e] = NoBasement THEN <<>> ELSE <<lab.raw_handlers[e]>>

UnknownIn(l, kw) == \E i \in 1..Len(kw) : Table(l)[kw[i].k] = NoRule

MessageOps == {"message", "chat_message", "private_message"}

\* C5 (as claimed): load(other) leaves, for the message view, for each
\* raw-event name and for both middleware lists, the receiver's earlier
\* entries as a prefix, in order, followed by other's entries.
C5_LoadAppends ==
    [][(nload' # nload /\ last'.l # last'.other) =>
        LET old == labelers[last'.l]
            oth == labelers[last'.other]
            new == labelers'[last'.l]
        IN  /\ new.message_handlers
                 = old.message_handlers \o oth.message_handlers
            /\ new.message_middlewares
                 = old.message_middlewares \o oth.message_middlewares
            /\ new.raw_middlewares
                 = old.raw_middlewares \o oth.raw_middlewares
            /\ \A e \in EventNames :
                 RawHandlersOf(new, e)
                     = RawHandlersOf(old, e) \o RawHandlersOf(oth, e)]_vars

\* C6 (as claimed): no step (in particular the construction of another
\* labeler with custom_rules) changes the names a labeler resolves in
\* get_custom_rules, or the class a name resolves to.
C6_CustomRulesLocal ==
    [][\A l \in Created : Table(l)' = Table(l)]_vars

C8_RegistrationAppends ==
    [][(nreg' # nreg /\ last'.op \in MessageOps /\ last'.result = "ok") =>
        LET old == labelers[last'.l].message_handlers
            new == labelers'[last'.l].message_handlers
        IN  /\ Len(new) = Len(old) + 1
            /\ SubSeq(new, 1, Len(old)) = old
            /\ new[Len(new)].func = last'.func
            /\ \A o \in Labelers \ {last'.l} :
                 labelers'[o].message_handlers = labelers[o].message_handlers
       ]_vars

\* C8 witness: a message view holds two handlers, in registration order.
C8_Witness ==
    \E l \in Labelers :
        /\ Len(labelers[l].message_handlers) = 2
        /\ labelers[l].message_handlers[1].func
             < labelers[l].message_handlers[2].func

\* C9 (as claimed): a raw_event registration leaves every handler that was
\* registered earlier in the raw-event view.
C9_RawRegistrationKeeps ==
    [][(nreg' # nreg /\ last'.op = "raw_event") =>
        \A l \in Labelers, e \in EventNames :
            labelers[l].raw_handlers[e] # NoBasement =>
                \E e2 \in EventNames :
                    labelers'[l].raw_handlers[e2].handler
                        = labelers[l].raw_handlers[e].handler]_vars

\* ------------------------------------------------------ StateRule: claims
\* C10: a StateRule configured with an empty set (None or an empty list)
\* matches iff the peer has no state entry; with the peer's state X set and
\* not cleared, StateRule({X}) matches; a StateRule with a non-empty set
\* never matches a peer without state.
C10_StateRule ==
    [][checked' # checked =>
        LET c  == checked'
            sp == storage[c.peer]
        IN  /\ c.config.items = <<>> => (c.result <=> sp = NoState)
            /\ (sp # NoState /\ c.config.items = <<sp>>) => c.result
            /\ (c.config.items # <<>> /\ sp = NoState) => ~c.result]_vars

\* C10 witness: after set(peer, MENU), StateRule(MENU) was evaluated on a
\* message of that peer and matched.
C10_Witness ==
    /\ checked.peer # 0
    /\ storage[checked.peer] = "MENU"
    /\ checked.state_peer = "MENU"
    /\ checked.config.kind = "single"
    /\ checked.config.items = <<"MENU">>
    /\ checked.result

\* -------------------------------------------------- message rules: claims
\* An evaluation that ended in a match: check returned a value other than
\* False and None.
Matched(o) == o.raised = "" /\ o.result \notin {"False", "None"}

\* The Levenshtein edit distance by its defining recurrence.
RECURSIVE EditDistance(_, _)
EditDistance(a, b) ==
    IF a = <<>> THEN Len(b)
    ELSE IF b = <<>> THEN Len(a)
    ELSE Min3(EditDistance(Tail(a), b) + 1,
              EditDistance(a, Tail(b)) + 1,
              EditDistance(Tail(a), Tail(b))
                + (IF Head(a) = Head(b) THEN 0 ELSE 1))

\* C11: LevensteinRule.distance(a, b) is the Levenshtein edit distance of a
\* and b for all strings, the empty one included, it is 0 for equal strings
\* and symmetric in its arguments; LevensteinRule.check on a message with
\* text matches iff some configured text is within max_distance of it.
C11_Levenstein ==
    (rule.cls = "LevensteinRule" /\ event.text # None) =>
        LET text == event.text[1]
            near == \E k \in 1..Len(rule.levenstein_texts) :
                        EditDistance(text, rule.levenstein_texts[k])
                            <= rule.max_distance
        IN  /\ \A k \in 1..Len(rule.levenstein_texts) :
                LET t == rule.levenstein_texts[k]
                IN  /\ distance(text, t) = EditDistance(text, t)
                    /\ distance(t, text) = distance(text, t)
                    /\ distance(t, t) = 0
            /\ distance(text, text) = 0
            /\ \A k \in 1..Len(evaluated) :
                /\ evaluated[k].raised = ""
                /\ evaluated[k].result = Bool(near)

\* C11 witness: a message whose text is longer than the configured one
\* (the arguments are swapped) and two edits away from it was evaluated
\* with max_distance 2 and matched.
C11_Witness ==
    /\ rule.cls = "LevensteinRule"
    /\ event.text # None
    /\ Len(rule.levenstein_texts) = 1
    /\ Len(event.text[1]) > Len(rule.levenstein_texts[1])
    /\ EditDistance(event.text[1], rule.levenstein_texts[1]) = 2
    /\ rule.max_distance = 2
    /\ Len(evaluated) > 0
    /\ Matched(evaluated[1])

\* C12: StickerRule matches a message iff its first attachment is a sticker
\* and either the sticker's id is in the configured id set, or the rule was
\* configured with an empty set or with True (then a sticker of any id
\* matches).
C12_StickerRule ==
    rule.cls = "StickerRule" =>
        \A k \in 1..Len(evaluated) :
            LET s == FirstSticker(evaluated[k].message)
            IN  Matched(evaluated[k]) <=>
                    /\ s # None
                    /\ \/ In(PyInt(s[1]), rule.sticker_ids)
                       \/ rule.sticker_ids = <<>>
                       \/ rule.sticker_ids = <<PyBool(TRUE)>>

\* The message lacks the field the rule's check reads.
FieldAbsent(self, msg) ==
    \/ /\ self.cls \in {"LevensteinRule", "MessageLengthRule", "RegexRule"}
       /\ msg.text = None
    \/ /\ self.cls \in {"StickerRule", "AttachmentTypeRule"}
       /\ msg.attachments = None
    \/ /\ self.cls = "ChatActionRule"
       /\ msg.action = None

\* C13: every rule's check fails closed: on a message in which the field
\* the rule reads (text, attachments, action) is absent, check returns
\* no-match and does not raise; in particular MessageLengthRule,
\* LevensteinRule and RegexRule on a message without text.
C13_FailsClosed ==
    \A k \in 1..Len(evaluated) :
        FieldAbsent(rule, evaluated[k].message) =>
            /\ evaluated[k].raised = ""
            /\ ~Matched(evaluated[k])

\* The attachment types of a message, as a set (empty without attachments).
TypesOf(msg) ==
    IF msg.attachments = None
    THEN {}
    ELSE {msg.attachments[1][i].type : i \in 1..Len(msg.attachments[1])}

\* C14: AttachmentTypeRule matches a message iff the message has at least
\* one attachment and the type of every attachment is in the configured
\* set; a message without attachments never matches, and one with a photo
\* and a video does not match a rule configured with photo only.
C14_AttachmentTypeRule ==
    rule.cls = "AttachmentTypeRule" =>
        \A k \in 1..Len(evaluated) :
            LET types      == TypesOf(evaluated[k].message)
                configured == {rule.attachment_types[j] :
                                j \in 1..Len(rule.attachment_types)}
            IN  /\ evaluated[k].raised = ""
                /\ Matched(evaluated[k]) <=>
                        (types # {} /\ types \subseteq configured)

\* C14 witness: a message with a photo and a video was evaluated against
\* AttachmentTypeRule("photo") and did not match.
C14_Witness ==
    /\ rule = AttachmentTypeRule(One("photo"))
    /\ TypesOf(event) = {"photo", "video"}
    /\ Len(evaluated) > 0
    /\ evaluated[1].message = event
    /\ ~Matched(evaluated[1])

\* C17: a rule's check is a pure function of the event and the rule's
\* configuration: whatever the instance evaluated before, each evaluation
\* ends as the first evaluation of a newly constructed instance on that
\* event would (it succeeds if that one does, with the same result).
C17_CheckIsPure ==
    \A k \in 1..Len(evaluated) :
        [raised |-> evaluated[k].raised, result |-> evaluated[k].result]
            = Check(rule, evaluated[k].message, FALSE)

\* ------------------------------------------- BotLabeler: direction rules
\* C19: a handler registered through chat_message has PeerRule(True) as its
\* first rule and one registered through private_message PeerRule(False),
\* followed by the positional rules, the labeler's auto rules and the
\* keyword-configured rules, in this order; the first rule of a
\* chat_message handler matches exactly the messages with peer_id different
\* from from_id and that of a private_message handler exactly those with
\* peer_id equal to from_id, so that no message satisfies both rule sets.
C19_DirectionRuleFirst ==
    [][(nreg' # nreg /\ last'.op \in {"chat_message", "private_message"}
            /\ last'.result = "ok") =>
        LET new       == labelers'[last'.l].message_handlers
            rules     == new[Len(new)].rules
            from_chat == last'.op = "chat_message"
            auto      == labelers[last'.l].auto_rules
            kw        == last'.kw
            npos      == Len(rules) - 1 - Len(auto) - Len(kw)
        IN  /\ rules[1] = PeerRule(Bool(from_chat))
            /\ \A peer_id \in Peers, from_id \in Peers :
                PeerRule_check(rules[1], peer_id, from_id)
                    <=> (from_chat <=> peer_id # from_id)
            /\ npos >= 0
            /\ \E c \in RegistrationCalls :
                /\ c.kw = kw
                /\ SubSeq(rules, 2, 1 + npos) = MapShorten(c.rules)
            /\ SubSeq(rules, 2 + npos, 1 + npos + Len(auto)) = auto
            /\ \A i \in 1..Len(kw) :
                rules[1 + npos + Len(auto) + i]
                    = Rule(Table(last'.l)[kw[i].k], kw[i].v, last'.l)
       ]_vars

\* C19 witness: one message view holds a chat_message handler with a
\* positional rule, an auto rule and a keyword rule behind PeerRule(True),
\* and a private_message handler starting with PeerRule(False).
C19_Witness ==
    \E l \in Labelers :
        \E i, j \in 1..Len(labelers[l].message_handlers) :
            /\ Len(labelers[l].message_handlers[i].rules) = 4
            /\ labelers[l].message_handlers[i].rules[1] = PeerRule("True")
            /\ Len(labelers[l].message_handlers[j].rules) > 0
            /\ labelers[l].message_handlers[j].rules[1] = PeerRule("False")

\* -------------------------------------------- BotLabeler.rule_config: claims
\* C18: after `labeler.vbml_ignore_case = b`, from any prior flags, the
\* ignore-case flag is among the labeler's vbml flags iff b and every other
\* flag is as before (so that repeating the assignment changes nothing),
\* and reading vbml_ignore_case then returns b.
C18_IgnoreCaseAssignment ==
    assigned.done =>
        /\ "IGNORECASE" \in rule_config["vbml_flags"] <=> assigned.ignore_case
        /\ rule_config["vbml_flags"] \ {"IGNORECASE"}
                = assigned.before \ {"IGNORECASE"}
        /\ got # NoGet => got = Returned(Bool(assigned.ignore_case))

\* ------------------------------------------- UserPolling: further claims
\* The requests before the j-th one that returned a cursor: a get_server
\* that returned a descriptor or a get_event that returned a batch.
CursorSources(j) == {i \in 1..(j - 1) : calls[i].resp.kind = "ok"}

\* C15: every successful (non-expired) poll response is yielded exactly
\* once, in the order received, and the cursor advances from it: each poll
\* is issued with the ts of the most recently yielded response, or with the
\* ts of the most recently acquired session if nothing was yielded since.
C15_CursorAdvances ==
    /\ \A i \in 1..Len(calls) :
        (calls[i].op = "get_event" /\ calls[i].resp.kind = "ok")
            => /\ Cardinality(YieldedFor(i)) = 1
               /\ \A j \in YieldedFor(i) : yielded[j].ts = calls[i].resp.ts
    /\ \A j, k \in 1..Len(yielded) :
        j < k => yielded[j].call < yielded[k].call
    /\ \A j \in 1..Len(calls) :
        calls[j].op = "get_event"
            => /\ CursorSources(j) # {}
               /\ \E i \in CursorSources(j) :
                    /\ \A k \in CursorSources(j) : k <= i
                    /\ calls[j].arg.ts = calls[i].resp.ts

\* C15 witness: two responses were yielded in turn, the second poll went
\* out with the ts of the first response, which differs from the ts of the
\* session.
C15_Witness ==
    \E i \in 1..(Len(calls) - 1) :
        /\ calls[i].op = "get_event" /\ calls[i].resp.kind = "ok"
        /\ calls[i].resp.ts # calls[i].arg.ts
        /\ calls[i + 1].op = "get_event" /\ calls[i + 1].resp.kind = "ok"
        /\ calls[i + 1].arg.ts = calls[i].resp.ts
        /\ Len(yielded) = 2

\* The number of get_server requests among the first i requests: the key
\* of the session the i-th request acquired.
KeyAt(i) == Cardinality({k \in 1..i : calls[k].op = "get_server"})

\* C16: a session-expired poll response is not an error: when the
\* re-acquisition that follows it succeeds, the error handler is invoked
\* for neither request, the expired response is not yielded, and the next
\* poll carries the key and the ts of the newly acquired session, not the
\* ts of the expired response.
C16_ExpiredIsNoError ==
    \A i \in 1..(Len(calls) - 1) :
        ( /\ calls[i].op = "get_event" /\ calls[i].resp.kind = "failed"
          /\ calls[i + 1].op = "get_server" /\ calls[i + 1].resp.kind = "ok" )
            => /\ HandledFor(i) = {} /\ HandledFor(i + 1) = {}
               /\ YieldedFor(i) = {}
               /\ i + 2 <= Len(calls) =>
                    /\ calls[i + 2].op = "get_event"
                    /\ calls[i + 2].arg.key = KeyAt(i + 1)
                    /\ calls[i + 2].arg.ts = calls[i + 1].resp.ts

\* C16 witness: an expired response carried a ts, the new session another
\* one, and the next poll went out with the session's ts.
C16_Witness ==
    \E i \in 1..(Len(calls) - 2) :
        /\ calls[i].op = "get_event" /\ calls[i].resp.kind = "failed"
        /\ calls[i].resp.ts # NoTs
        /\ calls[i + 1].op = "get_server" /\ calls[i + 1].resp.kind = "ok"
        /\ calls[i + 1].resp.ts # calls[i].resp.ts
        /\ calls[i + 2].op = "get_event"
        /\ calls[i + 2].arg.ts = calls[i + 1].resp.ts
        /\ handled = <<>>

\* C20 (as claimed): when the consumer closes or cancels the iterator while
\* listen is suspended at the yield or inside an in-flight request, listen
\* ends: the error handler is never invoked with the close / cancellation
\* exception, and no transport request is issued afterwards.
C20_CloseEndsListen ==
    /\ [](\A j \in 1..Len(handled) : handled[j].exc \notin CloseExceptions)
    /\ [][closed => Len(calls') = Len(calls)]_vars

====
